---- MODULE Spec2Model ----
(***************************************************************************)
(* Model of refresh_and_export.py: the TNDailySales ETL run (make the      *)
(* output directories, load the CSV, normalise the headers, clean, save,   *)
(* build the charts and the month-filtered dashboard, assemble the master  *)
(* document) and of the viewer's month selections in the written dashboard.*)
(*                                                                         *)
(* Text is a sequence of one-character strings so that strip, replace,     *)
(* lower, parsing and formatting are computed.  "<BOM>" stands for U+FEFF  *)
(* and "<NBSP>" for U+00A0.  pandas is modelled as in the 1.x / 2.x        *)
(* releases the script was written for: astype(str) renders a missing      *)
(* value as the text "nan".                                                *)
(***************************************************************************)
EXTENDS Integers, Sequences, FiniteSets, TLC

\* ------------------------------------------------------------------ bounds
MaxRows == 2

\* ------------------------------------------------------------------- text
BOM == "<BOM>"
NBSP == "<NBSP>"

\* Code-point order of the characters that occur (ASCII, then U+00A0, U+FEFF).
CharOrder ==
  << " ", "-", ".", "0", "1", "2", "3", "4", "5", "6", "7", "8", "9",
     "A", "B", "C", "D", "E", "F", "G", "H", "I", "J", "K", "L", "M",
     "N", "O", "P", "Q", "R", "S", "T", "U", "V", "W", "X", "Y", "Z", "_",
     "a", "b", "c", "d", "e", "f", "g", "h", "i", "j", "k", "l", "m",
     "n", "o", "p", "q", "r", "s", "t", "u", "v", "w", "x", "y", "z",
     NBSP, BOM >>

Ord(c) == CHOOSE i \in 1..Len(CharOrder) : CharOrder[i] = c

\* str.isspace(): the space and the no-break space are whitespace, U+FEFF is not.
IsSpace(c) == c \in {" ", NBSP}

\* str.lower() on one character.
LowerChar(c) == IF Ord(c) \in 14..39 THEN CharOrder[Ord(c) + 27] ELSE c

Lower(s) == [i \in 1..Len(s) |-> LowerChar(s[i])]

\* str.replace(ch, ""): every occurrence of ch removed.
Remove(s, ch) == SelectSeq(s, LAMBDA c : c # ch)

RECURSIVE LStrip(_)
LStrip(s) == IF s # <<>> /\ IsSpace(Head(s)) THEN LStrip(Tail(s)) ELSE s

RECURSIVE RStrip(_)
RStrip(s) ==
  IF s # <<>> /\ IsSpace(s[Len(s)]) THEN RStrip(SubSeq(s, 1, Len(s) - 1)) ELSE s

\* str.strip()
Strip(s) == RStrip(LStrip(s))

\* Lexicographic order of two texts by code point (the order groupby and sorted use).
RECURSIVE StrLess(_, _)
StrLess(a, b) ==
  IF b = <<>> THEN FALSE
  ELSE IF a = <<>> THEN TRUE
  ELSE IF Head(a) = Head(b) THEN StrLess(Tail(a), Tail(b))
  ELSE Ord(Head(a)) < Ord(Head(b))

\* --------------------------------------------------- canonical column names
ChannelName == <<"C","h","a","n","n","e","l","N","a","m","e">>
ProductCategory == <<"P","r","o","d","u","c","t","C","a","t","e","g","o","r","y">>
DateCol == <<"D","a","t","e">>
ProductName == <<"P","r","o","d","u","c","t","N","a","m","e">>
NetWeightKGs == <<"N","e","t","W","e","i","g","h","t","K","G","s">>
SalesCategory == <<"S","a","l","e","s","C","a","t","e","g","o","r","y">>
PaymentType == <<"P","a","y","m","e","n","t","T","y","p","e">>
CustomerName == <<"C","u","s","t","o","m","e","r","N","a","m","e">>
MonthCol == <<"M","o","n","t","h">>
DayCol == <<"D","a","y">>

\* The values of rename_map; its keys are their lower-cased forms.
CanonicalNames ==
  { ChannelName, ProductCategory, DateCol, ProductName, NetWeightKGs,
    SalesCategory, PaymentType, CustomerName }

\* A rename_map whose "paymenttype" entry names the wrong column.
rename_map_get_typo(key, col) ==
  IF key = Lower(PaymentType) THEN CustomerName
  ELSE IF \E n \in CanonicalNames : Lower(n) = key
       THEN CHOOSE n \in CanonicalNames : Lower(n) = key
       ELSE col

\* rename_map.get(key, col)
rename_map_get(key, col) ==
  IF \E n \in CanonicalNames : Lower(n) = key
  THEN CHOOSE n \in CanonicalNames : Lower(n) = key
  ELSE col

\* Step 2: .str.strip().str.replace(BOM, "").str.replace(NBSP, "")
FixColumnName(h) == Remove(Remove(Strip(h), BOM), NBSP)

\* key = col.lower().replace(" ", "").replace("_", "")
Key(col) == Remove(Remove(Lower(col), " "), "_")

\* Steps 2 and 3 on one header.
clean_cols(h) == rename_map_get(Key(FixColumnName(h)), FixColumnName(h))

NormalizeHeaders(hs) == [i \in 1..Len(hs) |-> clean_cols(hs[i])]

\* -------------------------------------------------------------------- cells
\* A cell of the table: k is its kind, s its text, n its number.
\*   "na"   missing value (NaN/None)      "str"  text s
\*   "num"  finite number n               "inf"  infinity of sign n
\*   "ts"   Timestamp, n = yyyymmdd       "nat"  NaT
\*   "date" datetime.date, n = yyyymmdd
NA == [k |-> "na", s |-> <<>>, n |-> 0]
NaT == [k |-> "nat", s |-> <<>>, n |-> 0]
Str(s) == [k |-> "str", s |-> s, n |-> 0]
Num(n) == [k |-> "num", s |-> <<>>, n |-> n]
Inf(sign) == [k |-> "inf", s |-> <<>>, n |-> sign]
Ts(n) == [k |-> "ts", s |-> <<>>, n |-> n]
DateObj(n) == [k |-> "date", s |-> <<>>, n |-> n]

NanText == <<"n","a","n">>
InfText == <<"i","n","f">>

\* The fields read_csv takes as missing (those of its default list that occur).
NaTokens ==
  { <<>>, NanText, <<"N","a","N">>, <<"N","A">>, <<"n","u","l","l">>,
    <<"N","U","L","L">> }

IsDigit(c) == Ord(c) \in 4..13
DigitVal(c) == Ord(c) - 4
DigitChar(d) == CharOrder[d + 4]

AllDigits(s) == s # <<>> /\ \A i \in 1..Len(s) : IsDigit(s[i])

RECURSIVE ParseNat(_)
ParseNat(s) ==
  IF s = <<>> THEN 0 ELSE 10 * ParseNat(SubSeq(s, 1, Len(s) - 1)) + DigitVal(s[Len(s)])

RECURSIVE FormatNat(_)
FormatNat(n) ==
  IF n < 10 THEN <<DigitChar(n)>> ELSE FormatNat(n \div 10) \o <<DigitChar(n % 10)>>

\* n written with at least two digits (%m, %d).
Format2(n) == IF n < 10 THEN <<"0">> \o FormatNat(n) ELSE FormatNat(n)

Unsigned(s) == IF s # <<>> /\ Head(s) = "-" THEN Tail(s) ELSE s
SignOf(s) == IF s # <<>> /\ Head(s) = "-" THEN -1 ELSE 1

\* An integer literal: -?[0-9]+
IsIntLiteral(s) == AllDigits(Unsigned(s))

\* A float literal with a zero fraction: -?[0-9]+\.0+
IsFloatLiteral(s) ==
  LET u == Unsigned(s)
  IN \E p \in 2..(Len(u) - 1) :
        /\ u[p] = "."
        /\ AllDigits(SubSeq(u, 1, p - 1))
        /\ \A i \in (p + 1)..Len(u) : u[i] = "0"

IntPart(u) ==
  IF \E p \in 1..Len(u) : u[p] = "."
  THEN SubSeq(u, 1, (CHOOSE p \in 1..Len(u) : u[p] = ".") - 1)
  ELSE u

\* pd.to_numeric(..., errors="coerce") on one cell.
to_numeric(c) ==
  IF c.k \in {"num", "inf"} THEN c
  ELSE IF c.k # "str" THEN NA
  ELSE IF Unsigned(c.s) = InfText THEN Inf(SignOf(c.s))
  ELSE IF IsIntLiteral(c.s) \/ IsFloatLiteral(c.s)
       THEN Num(SignOf(c.s) * ParseNat(IntPart(Unsigned(c.s))))
       ELSE NA

\* A to_numeric whose result is left unfilled.
fillna_keep(c) == c

\* .fillna(0)
fillna0(c) == IF c.k = "na" THEN Num(0) ELSE c

IsLeap(y) == (y % 4 = 0 /\ y % 100 # 0) \/ y % 400 = 0

DaysIn(y, m) ==
  IF m = 2 THEN (IF IsLeap(y) THEN 29 ELSE 28)
  ELSE IF m \in {4, 6, 9, 11} THEN 30 ELSE 31

\* pd.to_datetime(..., errors="coerce") on one cell holding YYYY-MM-DD text.
to_datetime(c) ==
  IF c.k = "ts" THEN c
  ELSE IF c.k # "str" \/ Len(c.s) # 10 THEN NaT
  ELSE LET ys == SubSeq(c.s, 1, 4)
           ms == SubSeq(c.s, 6, 7)
           ds == SubSeq(c.s, 9, 10)
       IN IF /\ c.s[5] = "-" /\ c.s[8] = "-"
             /\ AllDigits(ys) /\ AllDigits(ms) /\ AllDigits(ds)
             /\ ParseNat(ms) \in 1..12
             /\ ParseNat(ds) \in 1..DaysIn(ParseNat(ys), ParseNat(ms))
          THEN Ts(ParseNat(ys) * 10000 + ParseNat(ms) * 100 + ParseNat(ds))
          ELSE NaT

\* str(Period("M")): YYYY-MM
FormatMonth(n) == FormatNat(n \div 10000) \o <<"-">> \o Format2((n \div 100) % 100)

\* A midnight Timestamp or a date as to_csv writes it: YYYY-MM-DD
FormatDate(n) == FormatMonth(n) \o <<"-">> \o Format2(n % 100)

\* .astype(str): a missing value becomes the text "nan".
astype_str(c) ==
  CASE c.k = "str" -> c
    [] c.k = "na" -> Str(NanText)
    [] c.k = "nat" -> Str(<<"N","a","T">>)
    [] c.k = "inf" -> Str((IF c.n < 0 THEN <<"-">> ELSE <<>>) \o InfText)
    [] c.k = "num" ->
         Str((IF c.n < 0 THEN <<"-">> ELSE <<>>) \o FormatNat(IF c.n < 0 THEN -c.n ELSE c.n))
    [] OTHER -> Str(FormatDate(c.n))

\* .fillna("")
fillna_empty(c) == IF c.k = "na" THEN Str(<<>>) ELSE c

\* .str.strip()
str_strip(c) == IF c.k = "str" THEN Str(Strip(c.s)) ELSE c

\* The "Fix text" statement on one cell.
FixText(c) == str_strip(fillna_empty(astype_str(c)))

\* One field of the file as read_csv loads it.
ReadField(f) == IF f \in NaTokens THEN NA ELSE Str(f)

\* One cell as to_csv writes it; f64 is the dtype of a number column.
WriteField(c, f64) ==
  CASE c.k \in {"na", "nat"} -> <<>>
    [] c.k = "str" -> c.s
    [] c.k = "inf" -> (IF c.n < 0 THEN <<"-">> ELSE <<>>) \o InfText
    [] c.k = "num" ->
         (IF c.n < 0 THEN <<"-">> ELSE <<>>)
           \o FormatNat(IF c.n < 0 THEN -c.n ELSE c.n)
           \o (IF f64 THEN <<".", "0">> ELSE <<>>)
    [] OTHER -> FormatDate(c.n)

\* -------------------------------------------------------------------- table
\* A DataFrame: cols its column names, rows its rows (each a sequence of
\* cells, one per column), f64 whether NetWeightKGs is a float64 column.
HasCol(cols, name) == \E i \in 1..Len(cols) : cols[i] = name
ColIdx(cols, name) == CHOOSE i \in 1..Len(cols) : cols[i] = name

\* pd.read_csv: the header row as it stands, each field a text or missing.
read_csv(file) ==
  [cols |-> file.header,
   rows |-> [i \in 1..Len(file.rows) |->
               [j \in 1..Len(file.rows[i]) |-> ReadField(file.rows[i][j])]],
   f64 |-> FALSE]

\* df.columns = ...; df = df.rename(columns=clean_cols)
Normalize(t) == [t EXCEPT !.cols = NormalizeHeaders(@)]

required ==
  <<ChannelName, ProductName, DateCol, NetWeightKGs, ProductCategory, SalesCategory>>

TextCols == {ChannelName, ProductCategory, ProductName, SalesCategory}

\* df[name] = vals, one value per row: replaces the column or appends it.
SetCol(t, name, vals) ==
  IF HasCol(t.cols, name)
  THEN [t EXCEPT !.rows = [i \in 1..Len(t.rows) |->
                             [t.rows[i] EXCEPT ![ColIdx(t.cols, name)] = vals[i]]]]
  ELSE [t EXCEPT !.cols = Append(@, name),
                 !.rows = [i \in 1..Len(t.rows) |-> Append(t.rows[i], vals[i])]]

\* for col in required: if col not in df.columns: df[col] = np.nan
RECURSIVE Backfill(_, _)
Backfill(t, i) ==
  IF i > Len(required) THEN t
  ELSE Backfill(IF HasCol(t.cols, required[i]) THEN t
                ELSE SetCol(t, required[i], [r \in 1..Len(t.rows) |-> NA]), i + 1)

\* df[name] selects more than one column: the coercions raise on it.
Ambiguous(cols) ==
  \E i \in 1..Len(required) :
     Cardinality({j \in 1..Len(cols) : cols[j] = required[i]}) > 1

\* The number column is int64 only if every value is an integer literal.
IsFloat64(t) ==
  \E i \in 1..Len(t.rows) :
     LET c == t.rows[i][ColIdx(t.cols, NetWeightKGs)]
     IN ~(c.k = "str" /\ IsIntLiteral(c.s))

\* Fix date, fix numeric columns, fix text: lines 73-81 on one row.
CoerceRow(cols, r) ==
  [j \in 1..Len(r) |->
     IF cols[j] = DateCol THEN to_datetime(r[j])
     ELSE IF cols[j] = NetWeightKGs THEN fillna0(to_numeric(r[j]))
     ELSE IF cols[j] \in TextCols THEN FixText(r[j])
     ELSE r[j]]

Coerce(t) ==
  [t EXCEPT !.rows = [i \in 1..Len(t.rows) |-> CoerceRow(t.cols, t.rows[i])],
            !.f64 = IsFloat64(t)]

\* df.dropna(subset=["Date"]); df[df["ProductName"] != ""]; df[df["ChannelName"] != ""]
KeepRow(cols, r) ==
  /\ r[ColIdx(cols, DateCol)].k \notin {"nat", "na"}
  /\ r[ColIdx(cols, ProductName)] # Str(<<>>)
  /\ r[ColIdx(cols, ChannelName)] # Str(<<>>)

DropInvalid(t) == [t EXCEPT !.rows = SelectSeq(@, LAMBDA r : KeepRow(t.cols, r))]

\* df.drop_duplicates(): the first of every set of equal rows is kept.
RECURSIVE drop_duplicates(_)
drop_duplicates(rows) ==
  IF rows = <<>> THEN <<>>
  ELSE LET n == Len(rows)
           init == SubSeq(rows, 1, n - 1)
       IN IF \E i \in 1..(n - 1) : rows[i] = rows[n]
          THEN drop_duplicates(init)
          ELSE Append(drop_duplicates(init), rows[n])

\* df["Month"] = ...to_period("M").astype(str); df["Day"] = ...dt.date
Derive(t) ==
  LET d == ColIdx(t.cols, DateCol)
      withMonth ==
        SetCol(t, MonthCol, [i \in 1..Len(t.rows) |-> Str(FormatMonth(t.rows[i][d].n))])
  IN SetCol(withMonth, DayCol, [i \in 1..Len(t.rows) |-> DateObj(t.rows[i][d].n)])

\* The cleaning pipeline, lines 66-93.
Clean(t) ==
  LET a == DropInvalid(Coerce(Backfill(t, 1)))
  IN Derive([a EXCEPT !.rows = drop_duplicates(@)])

\* df.to_csv(CLEANED_PATH, index=False)
to_csv(t) ==
  [header |-> t.cols,
   rows |-> [i \in 1..Len(t.rows) |->
               [j \in 1..Len(t.rows[i]) |-> WriteField(t.rows[i][j], t.f64)]]]

\* -------------------------------------------------------------- aggregation
\* Float addition on integer-valued cells, infinities and NaN ("na").
Add(a, b) ==
  IF a.k = "na" \/ b.k = "na" THEN NA
  ELSE IF a.k = "inf" /\ b.k = "inf" THEN (IF a.n = b.n THEN a ELSE NA)
  ELSE IF a.k = "inf" THEN a
  ELSE IF b.k = "inf" THEN b
  ELSE Num(a.n + b.n)

\* a > b on numbers and infinities.
Greater(a, b) ==
  IF a.k = "inf" THEN a.n > 0 /\ ~(b.k = "inf" /\ b.n > 0)
  ELSE IF b.k = "inf" THEN b.n < 0
  ELSE a.n > b.n

\* sorted(...) of a set of texts.
RECURSIVE SortTexts(_)
SortTexts(S) ==
  IF S = {} THEN <<>>
  ELSE LET m == CHOOSE x \in S : \A y \in S \ {x} : StrLess(x, y)
       IN <<m>> \o SortTexts(S \ {m})

RECURSIVE SumWeights(_, _)
SumWeights(rows, w) ==
  IF rows = <<>> THEN Num(0) ELSE Add(rows[1][w], SumWeights(Tail(rows), w))

\* df.groupby(col)["NetWeightKGs"].sum(): a Series, one entry [key, val] per
\* distinct value of col, in ascending key order.
GroupSum(t, col) ==
  LET c == ColIdx(t.cols, col)
      w == ColIdx(t.cols, NetWeightKGs)
      keys == SortTexts({t.rows[i][c].s : i \in 1..Len(t.rows)})
  IN [i \in 1..Len(keys) |->
        [key |-> keys[i],
         val |-> SumWeights(SelectSeq(t.rows, LAMBDA r : r[c].s = keys[i]), w)]]

\* Series.sort_values(ascending=False): descending by value, NaN last, equal
\* values in their original order.
RECURSIVE InsertDesc(_, _)
InsertDesc(sorted, e) ==
  IF sorted = <<>> THEN <<e>>
  ELSE IF e.val.k # "na" /\ (Head(sorted).val.k = "na" \/ Greater(e.val, Head(sorted).val))
       THEN <<e>> \o sorted
       ELSE <<Head(sorted)>> \o InsertDesc(Tail(sorted), e)

RECURSIVE sort_values_desc(_)
sort_values_desc(series) ==
  IF series = <<>> THEN <<>>
  ELSE InsertDesc(sort_values_desc(SubSeq(series, 1, Len(series) - 1)),
                  series[Len(series)])

Index(series) == [i \in 1..Len(series) |-> series[i].key]
Values(series) == [i \in 1..Len(series) |-> series[i].val]

\* sorted(df["Month"].unique())
unique_months(t) ==
  SortTexts({t.rows[i][ColIdx(t.cols, MonthCol)].s : i \in 1..Len(t.rows)})

\* def filter_month(m): return df[df["Month"] == m]
filter_month(t, m) ==
  [t EXCEPT !.rows = SelectSeq(@, LAMBDA r : r[ColIdx(t.cols, MonthCol)].s = m)]

\* ------------------------------------------------------------------ charts
\* The four standalone figures, lines 107-148: the plotted x and y.
fig_channel(t) ==
  LET s == sort_values_desc(GroupSum(t, ChannelName))
  IN [x |-> Index(s), y |-> Values(s)]

fig_month(t) ==
  LET s == GroupSum(t, MonthCol) IN [x |-> Index(s), y |-> Values(s)]

fig_salescat(t) ==
  LET s == GroupSum(t, SalesCategory) IN [x |-> Index(s), y |-> Values(s)]

fig_product(t) ==
  LET s == GroupSum(t, ProductName) IN [x |-> Index(s), y |-> Values(s)]

\* The columns of the three filtered panels, in trace order.
PanelCols == <<ChannelName, SalesCategory, ProductName>>

\* One filtered panel's arrays, lines 178-179 and 230-238: x is the index of
\* the grouped sums, y the values of the grouped sums sorted descending.
PanelTrace(dff, col) ==
  [x |-> Index(GroupSum(dff, col)),
   y |-> Values(sort_values_desc(GroupSum(dff, col)))]

\* A trend trace computed over the month's rows instead of the whole table.
TrendTraceFiltered(t, dff) ==
  [x |-> Index(GroupSum(dff, MonthCol)), y |-> Values(GroupSum(dff, MonthCol))]

\* The trend trace's arrays, lines 210-211 and 233, 239: over the whole table.
TrendTrace(t, dff) ==
  [x |-> Index(GroupSum(t, MonthCol)), y |-> Values(GroupSum(t, MonthCol))]

\* The four traces given for the rows dff of one month.
Traces(t, dff) ==
  [p \in 1..4 |-> IF p <= 3 THEN PanelTrace(dff, PanelCols[p]) ELSE TrendTrace(t, dff)]

\* buttons: one per month, label m and the "update" arguments for all traces.
Buttons(t) ==
  LET ms == unique_months(t)
  IN [i \in 1..Len(ms) |-> [label |-> ms[i], args |-> Traces(t, filter_month(t, ms[i]))]]

\* ------------------------------------------------------------------ inputs
\* Raw fields of the input file that the runs draw from.
D0105 == <<"2","0","2","4","-","0","1","-","0","5">>
D0210 == <<"2","0","2","4","-","0","2","-","1","0">>
D0230 == <<"2","0","2","4","-","0","2","-","3","0">>
NotADate == <<"n","o","t","-","a","-","d","a","t","e">>

RawRow(ch, pn, dt, nw, sc) ==
  [ch |-> ch, pn |-> pn, dt |-> dt, nw |-> nw, sc |-> sc, pc |-> <<"C">>,
   pay |-> <<"x">>, cust |-> <<"y">>, note |-> <<" ", "z">>]

RowPool ==
  { RawRow(<<"A">>, <<"P">>, D0105, <<"3">>, <<"S">>),
    RawRow(<<"B">>, <<"Q">>, D0105, <<"5">>, <<"T">>),
    RawRow(<<" ", "A">>, <<"P">>, D0210, <<"-", "5">>, <<" ">>),
    RawRow(<<"A">>, <<>>, D0210, <<"a", "b", "c">>, <<"S">>),
    RawRow(<<" ">>, <<"P">>, D0105, <<"5">>, <<"S">>),
    RawRow(<<"B">>, <<"Q">>, NotADate, <<"5">>, <<"T">>),
    RawRow(<<"A">>, <<"Q">>, D0210, InfText, <<>>),
    RawRow(<<"B">>, <<"P">>, D0230, <<>>, <<"T">>) }

Column(h, slot) == [h |-> h, slot |-> slot]

\* Header rows: which field of a raw row each column carries.
LayoutPool ==
  { << Column(<<" ","C","h","a","n","n","e","l"," ","N","a","m","e"," ">>, "ch"),
       Column(<<"p","r","o","d","u","c","t","_","n","a","m","e">>, "pn"),
       Column(<<"D","A","T","E">>, "dt"),
       Column(<<"N","e","t",NBSP,"W","e","i","g","h","t","_","K","G","s">>, "nw"),
       Column(<<"S","a","l","e","s"," ","C","a","t","e","g","o","r","y">>, "sc"),
       Column(ProductCategory, "pc") >>,
    << Column(<<BOM>> \o ChannelName, "ch"),
       Column(ProductName, "pn"),
       Column(DateCol, "dt"),
       Column(NetWeightKGs, "nw"),
       Column(SalesCategory, "sc"),
       Column(<<"p","a","y","m","e","n","t"," ","t","y","p","e">>, "pay"),
       Column(<<"C","u","s","t","o","m","e","r","_","N","a","m","e">>, "cust"),
       Column(<<BOM," ","N","o","t","e">>, "note") >>,
    << Column(<<"C","h","a","n","n","e","l"," ","N","a","m","e">>, "ch"),
       Column(<<"c","h","a","n","n","e","l","_","n","a","m","e">>, "ch"),
       Column(ProductName, "pn"),
       Column(DateCol, "dt"),
       Column(NetWeightKGs, "nw") >>,
    << Column(ChannelName, "ch"),
       Column(ProductName, "pn"),
       Column(NetWeightKGs, "nw") >> }

Tables == UNION {[1..n -> RowPool] : n \in 0..MaxRows}

File(layout, table) ==
  [state |-> "ok",
   header |-> [j \in 1..Len(layout) |-> layout[j].h],
   rows |-> [i \in 1..Len(table) |->
               [j \in 1..Len(layout) |-> table[i][layout[j].slot]]]]

NoFile(state) == [state |-> state, header |-> <<>>, rows |-> <<>>]

Inputs ==
  {File(l, tb) : l \in LayoutPool, tb \in Tables}
    \cup {NoFile("missing"), NoFile("unparseable")}

\* ------------------------------------------------------------------- paths
DATA_DIR == "data"
EXPORT_DIR == "outputs"
CLEANED_PATH == "data/TNDailySales_cleaned.csv"
ChartFiles ==
  { "outputs/channel_sales.html", "outputs/month_trend.html",
    "outputs/sales_category.html", "outputs/product_sales.html" }
InteractivePath == "outputs/interactive_dashboard.html"
master_path == "outputs/master_dashboard.html"
Dirs == {DATA_DIR, EXPORT_DIR}

\* Everything an earlier run leaves behind.
AllPaths == Dirs \cup {CLEANED_PATH, InteractivePath, master_path} \cup ChartFiles

\* ------------------------------------------------------------------- state
VARIABLES
  pc,          \* the statement group the run is at
  err,         \* the exception that ended the run, or "none"
  run,         \* 1 for the first run, 2 for the run on the persisted table
  input,       \* the file at DATA_PATH
  fs,          \* the directories and files that exist
  created,     \* what this run has created or written so far
  df,          \* the DataFrame
  cleanedFile, \* the contents of CLEANED_PATH
  cleaned1,    \* the cleaned table of the first run
  figs,        \* the figures built so far
  shown,       \* the interactive dashboard's traces as the viewer sees them
  selected     \* the month the viewer's panels are showing

vars ==
  <<pc, err, run, input, fs, created, df, cleanedFile, cleaned1, figs, shown, selected>>

EmptyDf == [cols |-> <<>>, rows |-> <<>>, f64 |-> FALSE]
NoFig == [x |-> <<>>, y |-> <<>>]
NoFigs ==
  [channel |-> NoFig, month |-> NoFig, salescat |-> NoFig, product |-> NoFig,
   filtered |-> <<>>, buttons |-> <<>>]

Init ==
  /\ pc = "start"
  /\ err = "none"
  /\ run = 1
  /\ input \in Inputs
  /\ fs \in {{}, Dirs, AllPaths}
  /\ created = {}
  /\ df = EmptyDf
  /\ cleanedFile = [header |-> <<>>, rows |-> <<>>]
  /\ cleaned1 = EmptyDf
  /\ figs = NoFigs
  /\ shown = <<>>
  /\ selected = <<>>

\* Writing the files ps: they exist afterwards and this run has written them.
Write(ps) == fs' = fs \cup ps /\ created' = created \cup ps

\* Lines 26-27: os.makedirs(..., exist_ok=True) for data/ and outputs/.
MakeDirs ==
  /\ pc = "start"
  /\ fs' = fs \cup Dirs
  /\ created' = created \cup (Dirs \ fs)
  /\ pc' = "load"
  /\ UNCHANGED <<err, run, input, df, cleanedFile, cleaned1, figs, shown, selected>>

\* A load whose failure is swallowed and the run goes on.
LoadOutcomeSwallowed(state) == "normalize"

\* Where the run goes after pd.read_csv: an unreadable file raises.
LoadOutcome(state) == IF state = "ok" THEN "normalize" ELSE "aborted"

\* Line 31: df = pd.read_csv(DATA_PATH)
Load ==
  /\ pc = "load"
  /\ pc' = LoadOutcome(input.state)
  /\ err' = CASE input.state = "ok" -> "none"
              [] input.state = "missing" -> "FileNotFoundError"
              [] OTHER -> "ParserError"
  /\ df' = IF input.state = "ok" THEN read_csv(input) ELSE df
  /\ UNCHANGED <<run, input, fs, created, cleanedFile, cleaned1, figs, shown, selected>>

\* Lines 35-60: fix and standardise the column names.
NormalizeStep ==
  /\ pc = "normalize"
  /\ df' = Normalize(df)
  /\ pc' = "clean"
  /\ UNCHANGED <<err, run, input, fs, created, cleanedFile, cleaned1, figs, shown, selected>>

\* Lines 66-93: the cleaning pipeline; a required name that selects two
\* columns makes its coercion raise (to_datetime and to_numeric reject a
\* DataFrame, a DataFrame has no .str).
CleanStep ==
  /\ pc = "clean"
  /\ IF Ambiguous(df.cols)
     THEN pc' = "aborted" /\ err' = "ValueError" /\ df' = df
     ELSE pc' = "save" /\ err' = err /\ df' = Clean(df)
  /\ UNCHANGED <<run, input, fs, created, cleanedFile, cleaned1, figs, shown, selected>>

\* Line 96: df.to_csv(CLEANED_PATH, index=False)
Save ==
  /\ pc = "save"
  /\ cleanedFile' = to_csv(df)
  /\ Write({CLEANED_PATH})
  /\ cleaned1' = IF run = 1 THEN df ELSE cleaned1
  /\ pc' = "charts"
  /\ UNCHANGED <<err, run, input, df, figs, shown, selected>>

\* Lines 102-148: the four standalone charts, each written to its file.
Charts ==
  /\ pc = "charts"
  /\ figs' = [figs EXCEPT !.channel = fig_channel(df), !.month = fig_month(df),
                          !.salescat = fig_salescat(df), !.product = fig_product(df)]
  /\ Write(ChartFiles)
  /\ pc' = "dashboard"
  /\ UNCHANGED <<err, run, input, df, cleanedFile, cleaned1, shown, selected>>

\* Lines 155-258: the interactive dashboard; unique_months[0] raises
\* IndexError when the cleaned table has no month.
Dashboard ==
  /\ pc = "dashboard"
  /\ IF unique_months(df) = <<>>
     THEN /\ pc' = "aborted" /\ err' = "IndexError"
          /\ UNCHANGED <<figs, fs, created, shown, selected>>
     ELSE /\ pc' = "assemble" /\ err' = err
          /\ figs' = [figs EXCEPT
                        !.filtered = Traces(df, filter_month(df, unique_months(df)[1])),
                        !.buttons = Buttons(df)]
          /\ Write({InteractivePath})
          /\ shown' = figs'.filtered
          /\ selected' = unique_months(df)[1]
  /\ UNCHANGED <<run, input, df, cleanedFile, cleaned1>>

\* Lines 263-293: the master document.
Assemble ==
  /\ pc = "assemble"
  /\ Write({master_path})
  /\ pc' = "done"
  /\ UNCHANGED <<err, run, input, df, cleanedFile, cleaned1, figs, shown, selected>>

\* The viewer picks button i of the dropdown: method "update" replaces the x
\* and y of the four traces with the button's arrays.
SelectMonth(i) ==
  /\ pc = "done"
  /\ i \in 1..Len(figs.buttons)
  /\ shown' = [p \in 1..4 |-> figs.buttons[i].args[p]]
  /\ selected' = figs.buttons[i].label
  /\ UNCHANGED <<pc, err, run, input, fs, created, df, cleanedFile, cleaned1, figs>>

\* The script is run again with the persisted cleaned table as its input.
Rerun ==
  /\ pc \in {"done", "aborted"}
  /\ run = 1
  /\ CLEANED_PATH \in created
  /\ input' = [state |-> "ok", header |-> cleanedFile.header, rows |-> cleanedFile.rows]
  /\ run' = 2
  /\ pc' = "start"
  /\ err' = "none"
  /\ created' = {}
  /\ df' = EmptyDf
  /\ figs' = NoFigs
  /\ shown' = <<>>
  /\ selected' = <<>>
  /\ UNCHANGED <<fs, cleanedFile, cleaned1>>

Next ==
  \/ MakeDirs
  \/ Load
  \/ NormalizeStep
  \/ CleanStep
  \/ Save
  \/ Charts
  \/ Dashboard
  \/ Assemble
  \/ \E i \in 1..MaxRows : SelectMonth(i)
  \/ Rerun

Spec == Init /\ [][Next]_vars

\* ------------------------------------------------------------------ claims
\* The run has produced its cleaned table.
Cleaned ==
  \/ pc \in {"save", "charts", "dashboard", "assemble", "done"}
  \/ pc = "aborted" /\ err = "IndexError"

\* Column name of row r of the cleaned table.
Cell(r, name) == r[ColIdx(df.cols, name)]

\* The rows of the cleaned table whose month is m.
RowsOfMonth(m) == SelectSeq(df.rows, LAMBDA r : Cell(r, MonthCol).s = m)

\* The sum of NetWeightKGs over the rows of month m whose column col is c.
MonthSum(col, m, c) ==
  SumWeights(SelectSeq(RowsOfMonth(m), LAMBDA r : Cell(r, col).s = c),
             ColIdx(df.cols, NetWeightKGs))

\* Trace tr lists every category of col in month m once, each with its sum,
\* in descending order of the sums.
PanelCorrect(tr, col, m) ==
  LET cats == {Cell(RowsOfMonth(m)[i], col).s : i \in 1..Len(RowsOfMonth(m))}
  IN /\ Len(tr.x) = Len(tr.y)
     /\ Len(tr.x) = Cardinality(cats)
     /\ {tr.x[i] : i \in 1..Len(tr.x)} = cats
     /\ \A i \in 1..Len(tr.x) : tr.y[i] = MonthSum(col, m, tr.x[i])
     /\ \A i, j \in 1..Len(tr.y) : i < j => ~Greater(tr.y[j], tr.y[i])

\* C1: at the initial render and after any month selections, each of the
\* Channel, SalesCategory and Product panels shows at category c the sum of
\* NetWeightKGs over the cleaned rows of the shown month with that category,
\* the categories in descending order of that value.
C1_PanelsShowMonthSums ==
  shown # <<>> => \A p \in 1..3 : PanelCorrect(shown[p], PanelCols[p], selected)

\* The x of the trend panel is the months of the whole cleaned table in
\* ascending order and its y their sums of NetWeightKGs.
TrendIsFullTable(tr) ==
  /\ Len(tr.x) = Len(tr.y)
  /\ {tr.x[i] : i \in 1..Len(tr.x)} = {Cell(df.rows[i], MonthCol).s : i \in 1..Len(df.rows)}
  /\ \A i, j \in 1..Len(tr.x) : i < j => StrLess(tr.x[i], tr.x[j])
  /\ \A i \in 1..Len(tr.x) :
        tr.y[i] = SumWeights(RowsOfMonth(tr.x[i]), ColIdx(df.cols, NetWeightKGs))

\* C2: after any sequence of month selections the trend panel's x and y are
\* the per-month sums of NetWeightKGs over the whole cleaned table, as at the
\* initial render.
C2_TrendIsFullTable ==
  shown # <<>> => shown[4] = figs.filtered[4] /\ TrendIsFullTable(shown[4])

\* A later month has been selected in a dashboard whose trend has two months.
C2_Witness ==
  /\ pc = "done"
  /\ Len(shown) = 4
  /\ Len(shown[4].x) >= 2
  /\ selected = figs.buttons[2].label
  /\ shown[1] # figs.filtered[1]

\* The input table with its headers normalised, before cleaning.
Loaded == Normalize(read_csv(input))

\* The raw cell of column name in row r of the input, missing if there is no
\* such column.
RawCell(r, name) ==
  IF HasCol(Loaded.cols, name) THEN r[ColIdx(Loaded.cols, name)] ELSE NA

\* A raw cell that is missing, empty or whitespace-only.
Blank(c) == c.k = "na" \/ Strip(c.s) = <<>>

\* C3: every cleaned row has a non-empty trimmed ChannelName and ProductName,
\* and every input row whose ChannelName or ProductName is missing, empty or
\* whitespace-only has been removed: no more cleaned rows than input rows
\* with both names present.
C3_BlankNamesRemoved ==
  Cleaned =>
    /\ \A i \in 1..Len(df.rows) :
          \A name \in {ChannelName, ProductName} :
             LET c == Cell(df.rows[i], name)
             IN c.k = "str" /\ c.s # <<>> /\ Strip(c.s) = c.s
    /\ Len(df.rows) <=
         Cardinality({i \in 1..Len(Loaded.rows) :
                        /\ ~Blank(RawCell(Loaded.rows[i], ChannelName))
                        /\ ~Blank(RawCell(Loaded.rows[i], ProductName))})

ValidDate(c) ==
  /\ c.k = "ts"
  /\ (c.n \div 100) % 100 \in 1..12
  /\ c.n % 100 \in 1..DaysIn(c.n \div 10000, (c.n \div 100) % 100)

\* C4 as stated: every cleaned row has a finite NetWeightKGs >= 0 and a valid
\* Date.
C4_WeightFiniteNonNegative ==
  Cleaned =>
    \A i \in 1..Len(df.rows) :
       /\ Cell(df.rows[i], NetWeightKGs).k = "num"
       /\ Cell(df.rows[i], NetWeightKGs).n >= 0
       /\ ValidDate(Cell(df.rows[i], DateCol))

\* C4 as amended: every cleaned row has a NetWeightKGs that is a number and
\* never missing (it may be negative or infinite) and a valid Date.
C4_WeightNumberDateValid ==
  Cleaned =>
    \A i \in 1..Len(df.rows) :
       /\ Cell(df.rows[i], NetWeightKGs).k \in {"num", "inf"}
       /\ ValidDate(Cell(df.rows[i], DateCol))

\* A cleaned table with a row whose unparseable weight became 0 and a row
\* whose weight is negative.
C4_Witness ==
  /\ Cleaned
  /\ run = 1
  /\ \E i \in 1..Len(df.rows) :
        /\ Cell(df.rows[i], NetWeightKGs) = Num(0)
        /\ RawCell(Loaded.rows[i], NetWeightKGs) = Str(<<"a", "b", "c">>)
  /\ \E i \in 1..Len(df.rows) : Cell(df.rows[i], NetWeightKGs).n < 0

\* C5: when the cleaned table has zero rows the run still completes every
\* later stage: it does not end in an error.
C5_EmptyTableCompletes ==
  (CLEANED_PATH \in created /\ Len(df.rows) = 0) => pc # "aborted"

\* C6: a second run on the persisted cleaned table yields the rows of the
\* first cleaned table: no row dropped and no value changed.
C6_CleanIdempotent ==
  (run = 2 /\ Cleaned) => df.rows = cleaned1.rows

\* C7: normalising the normalised headers returns the same headers.
C7_NormalizeIdempotent ==
  pc = "clean" => NormalizeHeaders(df.cols) = df.cols

\* Input row i is dropped by the claim's account: unparseable or missing
\* Date, empty ProductName or ChannelName, or equal to an earlier row.
BadRow(i) ==
  LET r == Loaded.rows[i]
  IN \/ to_datetime(RawCell(r, DateCol)).k # "ts"
     \/ Blank(RawCell(r, ProductName))
     \/ Blank(RawCell(r, ChannelName))
     \/ \E j \in 1..(i - 1) : Loaded.rows[j] = r

\* C8: the cleaned table has no more rows than the input, and as many iff no
\* input row has an unparseable or missing Date, an empty ProductName, an
\* empty ChannelName, or duplicates an earlier row.
C8_RowCount ==
  Cleaned =>
    /\ Len(df.rows) <= Len(input.rows)
    /\ (Len(df.rows) = Len(input.rows)) <=> (\A i \in 1..Len(input.rows) : ~BadRow(i))

\* C9 as stated: when the input is missing or unparseable, at the abort this
\* run has created or modified nothing, no directory either.
C9_AbortCreatesNothing ==
  (pc = "aborted" /\ input.state # "ok") => created = {}

\* C9 as amended: when the input is missing or unparseable, this run writes
\* no file; all it has created at the abort is the data and outputs
\* directories that did not exist.
C9_AbortWritesNoFile ==
  input.state # "ok" =>
    /\ created \subseteq Dirs
    /\ cleanedFile = [header |-> <<>>, rows |-> <<>>]
    /\ figs = NoFigs

\* The run has aborted on an unreadable input after creating both directories.
C9_Witness ==
  pc = "aborted" /\ input.state # "ok" /\ created = Dirs

Distinct(s) == \A i, j \in 1..Len(s) : i # j => s[i] # s[j]

====
